---- MODULE Spec2Model ----
(***************************************************************************)
(* The start/stop RPC demo: client.py's main (one run per client process)  *)
(* and server.py's EmiService servicer behind a thread pool.               *)
(*                                                                         *)
(* Strings the program inspects or builds (the method selector, the        *)
(* command, the response message) are sequences of one-character strings,  *)
(* so that str.lower() and the f-string concatenation are computed.        *)
(***************************************************************************)
EXTENDS Naturals, Sequences, FiniteSets

VARIABLES
    pc,          \* client -> position in main: idle, calling, printed, returned, raised
    args,        \* client -> the (command, method) main was called with
    sent,        \* client -> the requests its stub has put on the channel, in order
    issuedAfter, \* client -> the clients whose main had ended when it issued its call
    channel,     \* requests on the wire, not yet given to a pool thread
    active,      \* requests a pool thread is executing
    replies,     \* client -> the outcome travelling back to its blocked stub call
    stdout,      \* client -> what main has printed, in order
    handled,     \* the server's completed calls, in completion order, with outcomes
    servicer     \* the attributes of the one EmiService() instance

vars == <<pc, args, sent, issuedAfter, channel, active, replies, stdout, handled, servicer>>

-----------------------------------------------------------------------------
(* Bounds and inputs *)

MaxClients == 2

Clients == 1..MaxClients

RUN2 == <<"R", "U", "N", "2">>
RUN == <<"R", "U", "N">>
Empty == <<>>

Commands == {Empty, RUN, RUN2}

start == <<"s", "t", "a", "r", "t">>
stop == <<"s", "t", "o", "p">>

Methods == {start, <<"S", "T", "A", "R", "T">>, stop, <<"p", "a", "u", "s", "e">>}

-----------------------------------------------------------------------------
(* Strings *)

LowerChar(ch) ==
    CASE ch = "A" -> "a" [] ch = "O" -> "o" [] ch = "P" -> "p"
      [] ch = "R" -> "r" [] ch = "S" -> "s" [] ch = "T" -> "t"
      [] ch = "U" -> "u" [] ch = "N" -> "n" [] ch = "E" -> "e"
      [] OTHER -> ch

Lower(s) == [i \in 1..Len(s) |-> LowerChar(s[i])]

StartePrefix == <<"S", "t", "a", "r", "t", "e", ":">>

-----------------------------------------------------------------------------
(* Client: the branch main takes *)

\* A plausible slip: the comparison made on the method as given.
Selected_NoLower(method) == method

\* method.lower(), the value both comparisons of main are made on.
Selected(method) == Lower(method)

\* A plausible slip: a final else that still issues the Start call.
Branch_FallThrough(method) ==
    IF Selected(method) = stop THEN "Stop" ELSE "Start"

\* if / elif / else of main.
Branch(method) ==
    IF Selected(method) = start THEN "Start"
    ELSE IF Selected(method) = stop THEN "Stop"
    ELSE "Unknown"

\* StartRequest(command=command) / StopRequest(command=command), tagged with the
\* stub method it is passed to and the calling client.
Request(c, rpc, command) == [client |-> c, rpc |-> rpc, command |-> command]

\* The line main prints on the else branch.
UnknownMethodLine(method) == [kind |-> "unknown_method", method |-> method]

\* print(resp): the fields of the response message.
ResponseLine(resp) == [kind |-> "response", status |-> resp.status, message |-> resp.message]

NoReply == [kind |-> "none"]

Ended == {"printed", "returned", "raised"}

-----------------------------------------------------------------------------
(* Server *)

max_workers == 10

NoAttributes == {}

StopFaults == {"UNIMPLEMENTED", "UNKNOWN"}

\* A plausible variant: the handler keeps a registry and marks the command Running.
Start_Recording(self, request) ==
    [self |-> self \cup {<<request.command, "Running">>},
     response |-> [kind |-> "response", status |-> 200,
                   message |-> StartePrefix \o request.command]]

\* A plausible variant: a repeated Start of a running command is rejected.
Start_RejectRunning(self, request) ==
    IF <<request.command, "Running">> \in self
    THEN [self |-> self,
          response |-> [kind |-> "response", status |-> 409,
                        message |-> StartePrefix \o request.command]]
    ELSE Start_Recording(self, request)

\* A plausible variant: an empty command is refused with a client-error status.
Start_Validating(self, request) ==
    IF request.command = Empty
    THEN [self |-> self,
          response |-> [kind |-> "response", status |-> 400, message |-> Empty]]
    ELSE [self |-> self,
          response |-> [kind |-> "response", status |-> 200,
                        message |-> StartePrefix \o request.command]]

\* A plausible slip: the message spelled "Started:".
Start_Spelled(self, request) ==
    [self |-> self,
     response |-> [kind |-> "response", status |-> 200,
                   message |-> <<"S", "t", "a", "r", "t", "e", "d", ":">> \o request.command]]

\* EmiService.Start: the instance after the call and the response returned.
Start(self, request) ==
    [self |-> self,
     response |-> [kind |-> "response", status |-> 200,
                   message |-> StartePrefix \o request.command]]

\* EmiService defines no Stop: the call ends in the inherited method, which
\* builds no StopResponse; the RPC is terminated with a fault status.
Stop(self, request, code) ==
    [self |-> self, response |-> [kind |-> "fault", code |-> code]]

-----------------------------------------------------------------------------
(* Initial state *)

Init ==
    /\ pc = [c \in Clients |-> "idle"]
    /\ args = [c \in Clients |-> [command |-> Empty, method |-> Empty]]
    /\ sent = [c \in Clients |-> <<>>]
    /\ issuedAfter = [c \in Clients |-> {}]
    /\ channel = {}
    /\ active = {}
    /\ replies = [c \in Clients |-> NoReply]
    /\ stdout = [c \in Clients |-> <<>>]
    /\ handled = <<>>
    /\ servicer = NoAttributes

-----------------------------------------------------------------------------
(* Client actions: one run of main(host, port, command, method) *)

\* stub.Start(req) or stub.Stop(req): the request goes out and main blocks.
Call(c, rpc, command, method) ==
    /\ pc' = [pc EXCEPT ![c] = "calling"]
    /\ args' = [args EXCEPT ![c] = [command |-> command, method |-> method]]
    /\ sent' = [sent EXCEPT ![c] = Append(@, Request(c, rpc, command))]
    /\ issuedAfter' = [issuedAfter EXCEPT ![c] = {d \in Clients : pc[d] \in Ended}]
    /\ channel' = channel \cup {Request(c, rpc, command)}
    /\ UNCHANGED <<active, replies, stdout, handled, servicer>>

MainStart(c, command, method) ==
    /\ pc[c] = "idle"
    /\ Branch(method) = "Start"
    /\ Call(c, "Start", command, method)

MainStop(c, command, method) ==
    /\ pc[c] = "idle"
    /\ Branch(method) = "Stop"
    /\ Call(c, "Stop", command, method)

MainUnknown(c, command, method) ==
    /\ pc[c] = "idle"
    /\ Branch(method) = "Unknown"
    /\ pc' = [pc EXCEPT ![c] = "returned"]
    /\ args' = [args EXCEPT ![c] = [command |-> command, method |-> method]]
    /\ stdout' = [stdout EXCEPT ![c] = Append(@, UnknownMethodLine(method))]
    /\ UNCHANGED <<sent, issuedAfter, channel, active, replies, handled, servicer>>

\* The stub call returns a response; main prints it and ends.
MainPrint(c) ==
    /\ pc[c] = "calling"
    /\ replies[c].kind = "response"
    /\ stdout' = [stdout EXCEPT ![c] = Append(@, ResponseLine(replies[c]))]
    /\ replies' = [replies EXCEPT ![c] = NoReply]
    /\ pc' = [pc EXCEPT ![c] = "printed"]
    /\ UNCHANGED <<args, sent, issuedAfter, channel, active, handled, servicer>>

\* The stub call raises grpc.RpcError; main has no handler and ends by it.
MainRaise(c) ==
    /\ pc[c] = "calling"
    /\ replies[c].kind = "fault"
    /\ replies' = [replies EXCEPT ![c] = NoReply]
    /\ pc' = [pc EXCEPT ![c] = "raised"]
    /\ UNCHANGED <<args, sent, issuedAfter, channel, active, stdout, handled, servicer>>

-----------------------------------------------------------------------------
(* Server actions *)

\* The server hands an inbound request to a free thread of the pool.
Submit(r) ==
    /\ r \in channel
    /\ Cardinality(active) < max_workers
    /\ channel' = channel \ {r}
    /\ active' = active \cup {r}
    /\ UNCHANGED <<pc, args, sent, issuedAfter, replies, stdout, handled, servicer>>

Complete(r, result) ==
    /\ active' = active \ {r}
    /\ servicer' = result.self
    /\ replies' = [replies EXCEPT ![r.client] = result.response]
    /\ handled' = Append(handled, [request |-> r, outcome |-> result.response])
    /\ UNCHANGED <<pc, args, sent, issuedAfter, channel, stdout>>

HandleStart(r) ==
    /\ r \in active
    /\ r.rpc = "Start"
    /\ Complete(r, Start(servicer, r))

HandleStop(r) ==
    /\ r \in active
    /\ r.rpc = "Stop"
    /\ \E code \in StopFaults : Complete(r, Stop(servicer, r, code))

-----------------------------------------------------------------------------

Next ==
    \/ \E c \in Clients, command \in Commands, method \in Methods :
          MainStart(c, command, method)
    \/ \E c \in Clients, command \in Commands, method \in Methods :
          MainStop(c, command, method)
    \/ \E c \in Clients, command \in Commands, method \in Methods :
          MainUnknown(c, command, method)
    \/ \E c \in Clients : MainPrint(c)
    \/ \E c \in Clients : MainRaise(c)
    \/ \E r \in channel : Submit(r)
    \/ \E r \in active : HandleStart(r)
    \/ \E r \in active : HandleStop(r)

Spec == Init /\ [][Next]_vars

-----------------------------------------------------------------------------
(* Vocabulary of the properties *)

Calls == DOMAIN handled

StartCall(i) == handled[i].request.rpc = "Start"
StopCall(i) == handled[i].request.rpc = "Stop"
CommandOf(i) == handled[i].request.command
CallerOf(i) == handled[i].request.client

\* Call j was issued after the main that made call i had ended.
InSequence(i, j) == i < j /\ CallerOf(i) \in issuedAfter[CallerOf(j)]

\* Clients c and d were both blocked in their calls at the same time.
Concurrent(c, d) ==
    /\ c # d
    /\ sent[c] # <<>> /\ sent[d] # <<>>
    /\ c \notin issuedAfter[d]
    /\ d \notin issuedAfter[c]

\* The lifecycle state the server holds for a command; a command the server
\* holds nothing for is Stopped.
LifecycleState(n) == IF <<n, "Running">> \in servicer THEN "Running" ELSE "Stopped"

StoppedPrefix == <<"S", "t", "o", "p", "p", "e", "d", ":">>

StartOutcome(n) == [kind |-> "response", status |-> 200, message |-> StartePrefix \o n]
StoppedOutcome(n) == [kind |-> "response", status |-> 200, message |-> StoppedPrefix \o n]

OnServer(c) == {r \in channel \cup active : r.client = c}
    \cup {handled[i].request : i \in {k \in Calls : CallerOf(k) = c}}

-----------------------------------------------------------------------------
(* Properties *)

\* C1: every Start(n) the server handles is answered with status 200 and the
\* message "Starte:" followed by n, whatever was handled before it, and that
\* is what the caller prints; Start("RUN2") gives "Starte:RUN2".
C1_StartResponse ==
    /\ \A i \in Calls : StartCall(i) => handled[i].outcome = StartOutcome(CommandOf(i))
    /\ \A i \in Calls : (StartCall(i) /\ CommandOf(i) = RUN2) =>
          /\ handled[i].outcome.status = 200
          /\ handled[i].outcome.message =
                <<"S", "t", "a", "r", "t", "e", ":", "R", "U", "N", "2">>
    /\ \A c \in Clients : (pc[c] = "printed" /\ sent[c][1].rpc = "Start") =>
          stdout[c] = <<StartOutcome(args[c].command)>>

C1_Witness ==
    \E i, j \in Calls :
        /\ i < j
        /\ StopCall(i)
        /\ StartCall(j) /\ CommandOf(j) = RUN2
        /\ pc[CallerOf(j)] = "printed"

\* C2 as stated: after two Start(n) calls made in sequence the command is
\* Running and both calls returned status 200.
C2_RunningAfterTwoStarts ==
    \A i, j \in Calls :
        (InSequence(i, j) /\ StartCall(i) /\ StartCall(j) /\ CommandOf(i) = CommandOf(j)) =>
            /\ handled[i].outcome.kind = "response" /\ handled[i].outcome.status = 200
            /\ handled[j].outcome.kind = "response" /\ handled[j].outcome.status = 200
            /\ LifecycleState(CommandOf(i)) = "Running"

\* C2 amended: two Start(n) calls made in sequence both return status 200 with
\* the same message, and the server holds no lifecycle state for n after them.
C2_TwoStartsBoth200NoState ==
    \A i, j \in Calls :
        (InSequence(i, j) /\ StartCall(i) /\ StartCall(j) /\ CommandOf(i) = CommandOf(j)) =>
            /\ handled[i].outcome.kind = "response" /\ handled[i].outcome.status = 200
            /\ handled[j].outcome = handled[i].outcome
            /\ servicer = NoAttributes
            /\ LifecycleState(CommandOf(i)) = "Stopped"

C2_Witness ==
    \E i, j \in Calls :
        /\ InSequence(i, j) /\ StartCall(i) /\ StartCall(j)
        /\ CommandOf(i) = RUN /\ CommandOf(j) = RUN
        /\ pc[CallerOf(j)] = "printed"

\* C3: Start(n) followed by Stop(n) makes the Stop call return status 200 and
\* the message "Stopped:" followed by n.
C3_StopAfterStart ==
    \A i, j \in Calls :
        (InSequence(i, j) /\ StartCall(i) /\ StopCall(j) /\ CommandOf(i) = CommandOf(j)) =>
            handled[j].outcome = StoppedOutcome(CommandOf(j))

\* C4: Stop(n) for a command no Start was handled for returns status 200
\* without error.
C4_StopNeverStarted ==
    \A j \in Calls :
        (StopCall(j) /\ ~ \E i \in 1..(j - 1) : StartCall(i) /\ CommandOf(i) = CommandOf(j)) =>
            /\ handled[j].outcome.kind = "response"
            /\ handled[j].outcome.status = 200

\* C5 as stated: Start with the empty command returns status 400 and leaves
\* the server's state unchanged.
C5_EmptyStartIs400 ==
    \A i \in Calls :
        (StartCall(i) /\ CommandOf(i) = Empty) =>
            /\ handled[i].outcome.kind = "response" /\ handled[i].outcome.status = 400
            /\ servicer = NoAttributes

\* C5 amended: handling Start with the empty command returns status 200 with
\* the message "Starte:" and leaves the server's state unchanged.
C5_EmptyStartIs200Unchanged ==
    [][\A r \in active :
          (/\ r.rpc = "Start" /\ r.command = Empty
           /\ Len(handled') = Len(handled) + 1
           /\ handled'[Len(handled')].request = r) =>
              /\ handled'[Len(handled')].outcome =
                    [kind |-> "response", status |-> 200, message |-> StartePrefix]
              /\ replies'[r.client] = handled'[Len(handled')].outcome
              /\ servicer' = servicer]_vars

C5_Witness ==
    \E i \in Calls :
        /\ StartCall(i) /\ CommandOf(i) = Empty
        /\ pc[CallerOf(i)] = "printed"
        /\ stdout[CallerOf(i)][1].message = StartePrefix

\* C6 as stated: a method other than start/stop is rejected with a status-400
\* error and no request for it reaches the server.
C6_UnknownMethodIs400 ==
    \A c \in Clients :
        (pc[c] \in Ended /\ Lower(args[c].method) \notin {start, stop}) =>
            /\ \E k \in DOMAIN stdout[c] :
                  stdout[c][k].kind = "response" /\ stdout[c][k].status = 400
            /\ sent[c] = <<>>
            /\ OnServer(c) = {}

\* C6 amended: a method other than start/stop is rejected in the client: main
\* prints the unknown-method line and returns, no response with any status
\* exists for it, and no request for it is sent or reaches the server.
C6_UnknownMethodPrintedNoRequest ==
    \A c \in Clients :
        (pc[c] # "idle" /\ Lower(args[c].method) \notin {start, stop}) =>
            /\ pc[c] = "returned"
            /\ stdout[c] = <<UnknownMethodLine(args[c].method)>>
            /\ replies[c] = NoReply
            /\ sent[c] = <<>>
            /\ OnServer(c) = {}

C6_Witness ==
    \E c, d \in Clients :
        /\ pc[c] = "returned"
        /\ args[c].method = <<"p", "a", "u", "s", "e">>
        /\ pc[d] = "printed"

\* C7 as stated: concurrent Start(n) calls end with n Running and every caller
\* answered with status 200.
C7_ConcurrentStartsRunning ==
    \A c, d \in Clients :
        (/\ Concurrent(c, d)
         /\ sent[c][1].rpc = "Start" /\ sent[d][1].rpc = "Start"
         /\ sent[c][1].command = sent[d][1].command
         /\ pc[c] \in Ended /\ pc[d] \in Ended) =>
            /\ pc[c] = "printed" /\ stdout[c][1].status = 200
            /\ pc[d] = "printed" /\ stdout[d][1].status = 200
            /\ LifecycleState(sent[c][1].command) = "Running"

\* C7 amended: concurrent Start(n) calls are each answered, in every
\* interleaving, with status 200 and "Starte:" followed by n; none is lost on
\* the way; the server holds no lifecycle state, so n is not Running at the end.
C7_ConcurrentStartsAll200NoState ==
    \A c, d \in Clients :
        (/\ Concurrent(c, d)
         /\ sent[c][1].rpc = "Start" /\ sent[d][1].rpc = "Start"
         /\ sent[c][1].command = sent[d][1].command) =>
            /\ pc[c] \in {"calling", "printed"}
            /\ pc[c] = "calling" =>
                  \/ sent[c][1] \in channel \cup active
                  \/ replies[c] = StartOutcome(sent[c][1].command)
            /\ pc[c] = "printed" => stdout[c] = <<StartOutcome(sent[c][1].command)>>
            /\ (sent[c][1] \in channel \cup active) # (\E i \in Calls : handled[i].request = sent[c][1])
            /\ Cardinality({i \in Calls : handled[i].request = sent[c][1]}) <= 1
            /\ LifecycleState(sent[c][1].command) = "Stopped"

C7_Witness ==
    \E c, d \in Clients :
        /\ Concurrent(c, d)
        /\ sent[c][1] = Request(c, "Start", RUN2)
        /\ sent[d][1] = Request(d, "Start", RUN2)
        /\ pc[c] = "printed" /\ pc[d] = "printed"

\* C8: every Start or Stop request that reaches the server is answered with a
\* structured response (status and message), never with a fault.
C8_AlwaysStructuredResponse ==
    \A i \in Calls :
        /\ handled[i].outcome.kind = "response"
        /\ DOMAIN handled[i].outcome = {"kind", "status", "message"}

\* C9: Start requests carrying the same command get identical responses
\* whatever was handled before them, and handling a Start request changes no
\* server state.
C9_StartStateless ==
    /\ [](\A i, j \in Calls :
            (StartCall(i) /\ StartCall(j) /\ CommandOf(i) = CommandOf(j)) =>
                handled[i].outcome = handled[j].outcome)
    /\ [][(\E r \in active :
              /\ r.rpc = "Start"
              /\ Len(handled') = Len(handled) + 1
              /\ handled'[Len(handled')].request = r) => servicer' = servicer]_vars

C9_Witness ==
    \E i, j \in Calls :
        /\ i < j
        /\ StartCall(i) /\ StartCall(j)
        /\ CommandOf(i) = RUN2 /\ CommandOf(j) = RUN2

\* C10: one run of main sends at most one request: one Start carrying the
\* command unchanged when the method lower-cased is "start", one Stop carrying
\* the command unchanged when it is "stop", none otherwise; a response is
\* printed only after that one request has been answered.
C10_OneRequestPerRun ==
    \A c \in Clients :
        /\ Len(sent[c]) <= 1
        /\ Cardinality(OnServer(c)) <= Len(sent[c])
        /\ pc[c] = "idle" => sent[c] = <<>> /\ stdout[c] = <<>>
        /\ pc[c] # "idle" =>
              /\ Lower(args[c].method) = start =>
                    sent[c] = <<Request(c, "Start", args[c].command)>>
              /\ Lower(args[c].method) = stop =>
                    sent[c] = <<Request(c, "Stop", args[c].command)>>
              /\ Lower(args[c].method) \notin {start, stop} => sent[c] = <<>>
        /\ \A k \in DOMAIN stdout[c] :
              stdout[c][k].kind = "response" =>
                  /\ Len(sent[c]) = 1
                  /\ \E i \in Calls :
                        /\ handled[i].request = sent[c][1]
                        /\ handled[i].outcome.kind = "response"
                        /\ ResponseLine(handled[i].outcome) = stdout[c][k]

C10_Witness ==
    \E c, d \in Clients :
        /\ pc[c] = "printed"
        /\ args[c] = [command |-> RUN2, method |-> <<"S", "T", "A", "R", "T">>]
        /\ pc[d] = "raised"
        /\ args[d].method = stop

====
